---------------------------- MODULE Spec2Model ----------------------------
(***************************************************************************)
(* Place search client: the served variant (app.py: search, search_more,   *)
(* download_csv over the process-wide session_data map) and the command    *)
(* line variant (main.py: main, save_to_csv), with generate_filename.      *)
(* Text is modelled as a sequence of one-character strings.                *)
(***************************************************************************)
EXTENDS Integers, Sequences, FiniteSets, TLC

VARIABLES
    variant,        \* which program runs: "app" (app.py) or "main" (main.py)
    session_data,   \* app.py: session id -> session record
    accepted,       \* history: session id -> the upstream place lists stored
    last,           \* app.py: the last completed request and its reply
    handlers,       \* app.py: search_more handlers in flight (overlapping)
    appended,       \* history: session id -> request tokens that appended a page
    cli,            \* main.py: the locals of main()
    file,           \* main.py: the CSV file named by filename
    saved,          \* history: records written since the file was last truncated
    exp,            \* the last export call and its outcome
    fn              \* generate_filename: its argument and its result

vars == <<variant, session_data, accepted, last, handlers, appended,
          cli, file, saved, exp, fn>>

\* ------------------------------------------------------------------ bounds

MaxRecords == 4
MaxHandlers == 2
MaxRows == 5
MaxBatch == 2
MaxQueryLen == 3

\* ------------------------------------------------------------------- text

None == "None"
EmptyDict == [k \in {} |-> k]

Get(d, k, default) == IF k \in DOMAIN d THEN d[k] ELSE default

Min(S) == CHOOSE x \in S : \A y \in S : x <= y
Max(S) == CHOOSE x \in S : \A y \in S : x >= y

UpperCase == <<"A","B","C","D","E","F","G","H","I","J","K","L","M",
               "N","O","P","Q","R","S","T","U","V","W","X","Y","Z">>
LowerCase == <<"a","b","c","d","e","f","g","h","i","j","k","l","m",
               "n","o","p","q","r","s","t","u","v","w","x","y","z">>
Digits == {"0","1","2","3","4","5","6","7","8","9"}

Range(s) == {s[i] : i \in DOMAIN s}

\* str.lower() on one character
Lower(c) ==
    IF c \in Range(UpperCase)
    THEN LowerCase[CHOOSE i \in DOMAIN UpperCase : UpperCase[i] = c]
    ELSE c

LowerStr(s) == [i \in DOMAIN s |-> Lower(s[i])]

\* the regular expression classes \s and \w
IsSpace(c) == c \in {" ", "\t", "\n"}
IsWord(c) == c \in Range(UpperCase) \cup Range(LowerCase) \cup Digits \cup {"_"}

\* str.strip()
Strip(s) ==
    LET keep == {i \in DOMAIN s : ~IsSpace(s[i])}
    IN IF keep = {} THEN <<>> ELSE SubSeq(s, Min(keep), Max(keep))

\* the character classes of the patterns: \s, \S, [^,] and [-\s]
InClass(class, c) ==
    CASE class = "space" -> IsSpace(c)
      [] class = "nonspace" -> ~IsSpace(c)
      [] class = "noncomma" -> c # ","
      [] class = "sep" -> c = "-" \/ IsSpace(c)

\* the end of the run of characters of the class that starts at i
\* (i - 1 when s[i] is not of the class)
RunEnd(s, i, class) ==
    LET stops == {j \in i..Len(s) : ~InClass(class, s[j])}
    IN IF stops = {} THEN Len(s) ELSE Min(stops) - 1

\* str.split(): the maximal runs of non-whitespace, in order
RECURSIVE SplitFrom(_, _)
SplitFrom(s, i) ==
    IF i > Len(s) THEN <<>>
    ELSE IF IsSpace(s[i]) THEN SplitFrom(s, i + 1)
    ELSE LET e == RunEnd(s, i, "nonspace")
         IN <<SubSeq(s, i, e)>> \o SplitFrom(s, e + 1)

Split(s) == SplitFrom(s, 1)

\* the positions at which sub occurs in s
Occurrences(s, sub) ==
    {i \in 1..(Len(s) - Len(sub) + 1) : SubSeq(s, i, i + Len(sub) - 1) = sub}

Contains(s, sub) == Occurrences(s, sub) # {}

\* s.split(sub)[0]
BeforeFirst(s, sub) ==
    IF Contains(s, sub) THEN SubSeq(s, 1, Min(Occurrences(s, sub)) - 1) ELSE s

\* ------------------------------------------------------ generate_filename

\* group(1) of the pattern in\s+([^,]+) matched at position i, as <<group>>,
\* or <<>> when the pattern does not match there. \s+ is greedy and gives
\* back one character when nothing but a comma or the end follows it.
MatchAt(s, i) ==
    IF ~(i + 2 <= Len(s) /\ Lower(s[i]) = "i" /\ Lower(s[i + 1]) = "n"
         /\ IsSpace(s[i + 2]))
    THEN <<>>
    ELSE LET j == RunEnd(s, i + 2, "space") + 1
         IN IF j <= Len(s) /\ s[j] # ","
            THEN <<SubSeq(s, j, RunEnd(s, j, "noncomma"))>>
            ELSE IF j - 1 > i + 2 THEN <<SubSeq(s, j - 1, j - 1)>>
            ELSE <<>>

\* re.search(r'in\s+([^,]+)', search_query, re.IGNORECASE): leftmost match
CityMatch(s) ==
    LET hits == {i \in DOMAIN s : MatchAt(s, i) # <<>>}
    IN IF hits = {} THEN <<>> ELSE MatchAt(s, Min(hits))

SearchResults == <<"s","e","a","r","c","h","_","r","e","s","u","l","t","s">>
ResultsCsv == <<"_","r","e","s","u","l","t","s",".","c","s","v">>
SpaceInSpace == <<" ","i","n"," ">>

City(s) ==
    LET m == CityMatch(s)
        parts == Split(s)
    IN IF m # <<>> THEN Strip(m[1])
       ELSE IF Len(parts) > 2
            THEN parts[Len(parts) - 1] \o <<"_">> \o parts[Len(parts)]
            ELSE SearchResults

BusinessType(s) ==
    IF Contains(LowerStr(s), SpaceInSpace)
    THEN Strip(BeforeFirst(s, SpaceInSpace))
    ELSE Split(s)[1]

\* re.sub(r'[^\w\s-]', '', x)
RemoveOther(x) == SelectSeq(x, LAMBDA c : IsWord(c) \/ IsSpace(c) \/ c = "-")

\* re.sub(r'[-\s]+', '_', x)
RECURSIVE CollapseFrom(_, _)
CollapseFrom(x, i) ==
    IF i > Len(x) THEN <<>>
    ELSE IF InClass("sep", x[i])
    THEN <<"_">> \o CollapseFrom(x, RunEnd(x, i, "sep") + 1)
    ELSE <<x[i]>> \o CollapseFrom(x, i + 1)

CollapseKeepHyphen(x) ==
    [i \in DOMAIN x |-> IF IsSpace(x[i]) THEN "_" ELSE x[i]]

Collapse(x) == CollapseFrom(x, 1)

CleanName(x) == Collapse(Strip(RemoveOther(x)))

generate_filename(search_query) ==
    CleanName(City(search_query)) \o <<"_">>
        \o CleanName(BusinessType(search_query)) \o ResultsCsv


\* ---------------------------------------------------------------- upstream

HVACQuery == <<"H","V","A","C"," ","c","o","n","t","r","a","c","t","o","r",
               " ","i","n"," ","F","u","q","u","a","y","-","V","a","r","i",
               "n","a"," ","N","o","r","t","h"," ","C","a","r","o","l","i",
               "n","a">>
RestaurantsQuery == <<"r","e","s","t","a","u","r","a","n","t","s">>
BlankQuery == <<" ">>

\* the query texts a client posts
Queries == {HVACQuery, BlankQuery}

\* entries of the upstream place list: one with every field the extractor
\* reads, one with a displayName that has no text and most fields missing
PlaceA == [id |-> "A", displayName |-> [text |-> "Acme"],
           formattedAddress |-> "1 Main St", primaryType |-> "plumber",
           rating |-> "4.5", userRatingCount |-> "10",
           businessStatus |-> "OPERATIONAL", websiteUri |-> "acme.example"]
PlaceB == [id |-> "B", displayName |-> [languageCode |-> "en"]]
RawPlaces == {PlaceA, PlaceB}

\* a place list of n entries, the two kinds of entry alternating (the code
\* reads each entry's keys and never compares entries, so which entries a
\* page holds matters only through their number and their order)
Catalogue(n) == [i \in 1..n |-> IF i % 2 = 1 THEN PlaceA ELSE PlaceB]

\* the place lists the upstream can answer with while the store has room
\* for `room` more records
PlaceLists(room) == {Catalogue(n) : n \in 0..room}

\* the continuation token the upstream issues for the page after the one
\* requested with page_token
TokenAfter(page_token) == IF page_token = None THEN "t" ELSE page_token \o "t"

\* the JSON bodies of a 2xx answer: places and nextPageToken are each optional
Bodies(page_token, room) ==
    {[places |-> pl, nextPageToken |-> TokenAfter(page_token)] :
        pl \in PlaceLists(room)}
    \cup {[places |-> pl] : pl \in PlaceLists(room)}
    \cup {[nextPageToken |-> TokenAfter(page_token)], EmptyDict}

\* search_places: fails (ok = FALSE) or returns response.json()
search_places(text_query, page_token, room) ==
    {[page_token |-> page_token, ok |-> FALSE, body |-> EmptyDict]}
    \cup {[page_token |-> page_token, ok |-> TRUE, body |-> b] :
            b \in Bodies(page_token, room)}

\* ------------------------------------------------------ extract_place_data

fieldnames == <<"id", "displayName", "formattedAddress", "primaryType",
                "rating", "userRatingCount", "businessStatus">>

place_data(place) ==
    [id |-> Get(place, "id", ""),
     displayName |-> Get(Get(place, "displayName", EmptyDict), "text", ""),
     formattedAddress |-> Get(place, "formattedAddress", ""),
     primaryType |-> Get(place, "primaryType", ""),
     rating |-> Get(place, "rating", ""),
     userRatingCount |-> Get(place, "userRatingCount", ""),
     businessStatus |-> Get(place, "businessStatus", "")]

ExtractList(places) == [i \in DOMAIN places |-> place_data(places[i])]

extract_place_data(api_response) ==
    IF "places" \notin DOMAIN api_response THEN <<>>
    ELSE ExtractList(api_response["places"])

\* bool(x) of a token: None and the empty string are false
Truthy(token) == token # None /\ token # ""

\* --------------------------------------------------------------- csv rows

\* csv.DictWriter: one row per dictionary, its cells in fieldnames order
Row(place) == [j \in DOMAIN fieldnames |-> place[fieldnames[j]]]
HeaderRow == fieldnames
Rows(places_data) == [i \in DOMAIN places_data |-> Row(places_data[i])]

\* ------------------------------------------------------------ app.py state

\* the page cap: app.py compares page_count with 3, main.py sets max_pages = 3
MaxPages == 3

Put(d, k, v) == [x \in DOMAIN d \cup {k} |-> IF x = k THEN v ELSE d[x]]

\* a completed request: its status code, its error (if any), the JSON or file
\* it returned, the upstream calls it made and whether it slept first
Reply(op, sid, status, error, reply, calls, slept) ==
    [op |-> op, sid |-> sid, status |-> status, error |-> error,
     reply |-> reply, calls |-> calls, slept |-> slept]

NoRequest == Reply("none", -1, 0, "", EmptyDict, <<>>, FALSE)

appOther == <<variant, cli, file, saved, exp, fn>>

\* search's flag: bool(api_response.get("nextPageToken"))
has_more_first(api_response) ==
    Truthy(Get(api_response, "nextPageToken", None))

HasMoreTokenOnly(api_response, session) ==
    Truthy(Get(api_response, "nextPageToken", None))

\* search_more's flag, computed on the session after its update:
\* bool(api_response.get("nextPageToken")) and session['page_count'] < 3
has_more(api_response, session) ==
    /\ Truthy(Get(api_response, "nextPageToken", None))
    /\ session.page_count < MaxPages

\* f"session_{len(session_data)}", named by its number
NextSessionId == Cardinality(DOMAIN session_data)

\* the session ids a client may send: the known ones and one unknown
SessionIds == 0..NextSessionId

RECURSIVE SumLen(_, _)
SumLen(d, ids) ==
    IF ids = {} THEN 0
    ELSE LET i == CHOOSE x \in ids : TRUE
         IN Len(d[i].all_places) + SumLen(d, ids \ {i})

\* how many more records the store may take
Room == MaxRecords - SumLen(session_data, DOMAIN session_data)

\* ------------------------------------------------------------------ search

NoPlacesNever(places_data) == FALSE

\* if not places_data
NoPlaces(places_data) == places_data = <<>>

NewSession(search_query, places_data, api_response) ==
    [query |-> search_query,
     all_places |-> places_data,
     next_page_token |-> Get(api_response, "nextPageToken", None),
     page_count |-> 1,
     filename |-> generate_filename(search_query)]

search(query, r) ==
    LET search_query == Strip(query)
        places_data == extract_place_data(r.body)
        session_id == NextSessionId
        session == NewSession(search_query, places_data, r.body)
    IN /\ variant = "app"
       /\ IF search_query = <<>>
          THEN /\ last' = Reply("search", -1, 400, "QueryRequired", EmptyDict,
                                <<>>, FALSE)
               /\ UNCHANGED <<session_data, accepted, appended>>
          ELSE IF ~r.ok
          THEN /\ last' = Reply("search", -1, 500, "UpstreamRequestError",
                                EmptyDict, <<r>>, FALSE)
               /\ UNCHANGED <<session_data, accepted, appended>>
          ELSE IF NoPlaces(places_data)
          THEN /\ last' = Reply("search", -1, 404, "NoResults", EmptyDict,
                                <<r>>, FALSE)
               /\ UNCHANGED <<session_data, accepted, appended>>
          ELSE /\ session_data' = Put(session_data, session_id, session)
               /\ accepted' = Put(accepted, session_id,
                                   <<Get(r.body, "places", <<>>)>>)
               /\ appended' = Put(appended, session_id, <<>>)
               /\ last' = Reply("search", session_id, 200, "",
                                [session_id |-> session_id,
                                 places |-> places_data,
                                 has_more |-> has_more_first(r.body),
                                 total_count |-> Len(places_data),
                                 filename |-> session.filename],
                                <<r>>, FALSE)
       /\ UNCHANGED <<handlers, appOther>>

\* ------------------------------------------------------------- search_more

NoTokenFirst(session) == ~Truthy(session.next_page_token)
PageLimit(session) == session.page_count >= MaxPages

\* the two checks before the delay, in the order the handler makes them
PrecheckLimitOnly(session) ==
    IF PageLimit(session) THEN "PageLimitReached" ELSE "ok"

PrecheckOffByOne(session) ==
    IF NoTokenFirst(session) THEN "NoMoreResults"
    ELSE IF session.page_count > MaxPages THEN "PageLimitReached"
    ELSE "ok"

Precheck(session) ==
    IF NoTokenFirst(session) THEN "NoMoreResults"
    ELSE IF PageLimit(session) THEN "PageLimitReached"
    ELSE "ok"

AppendPageInFront(session, additional_places, api_response) ==
    [session EXCEPT
        !.all_places = additional_places \o @,
        !.next_page_token = Get(api_response, "nextPageToken", None),
        !.page_count = @ + 1]

AppendPageKeepCount(session, additional_places, api_response) ==
    [session EXCEPT
        !.all_places = @ \o additional_places,
        !.next_page_token = Get(api_response, "nextPageToken", None)]

\* session['all_places'].extend(...); next_page_token = ...; page_count += 1
AppendPage(session, additional_places, api_response) ==
    [session EXCEPT
        !.all_places = @ \o additional_places,
        !.next_page_token = Get(api_response, "nextPageToken", None),
        !.page_count = @ + 1]

\* the handler from the upstream answer r on: store the page or report
StorePage(session_id, r) ==
    LET session == session_data[session_id]
        additional_places == extract_place_data(r.body)
        updated == AppendPage(session, additional_places, r.body)
    IN IF ~r.ok
       THEN /\ last' = Reply("search_more", session_id, 500,
                             "UpstreamRequestError", EmptyDict, <<r>>, TRUE)
            /\ UNCHANGED <<session_data, accepted, appended>>
       ELSE IF NoPlaces(additional_places)
       THEN /\ last' = Reply("search_more", session_id, 404,
                             "NoAdditionalPlaces", EmptyDict, <<r>>, TRUE)
            /\ UNCHANGED <<session_data, accepted, appended>>
       ELSE /\ session_data' = [session_data EXCEPT ![session_id] = updated]
            /\ accepted' = [accepted EXCEPT
                    ![session_id] = Append(@, Get(r.body, "places", <<>>))]
            /\ appended' = [appended EXCEPT
                                ![session_id] = Append(@, r.page_token)]
            /\ last' = Reply("search_more", session_id, 200, "",
                             [places |-> additional_places,
                              has_more |-> has_more(r.body, updated),
                              total_count |-> Len(updated.all_places),
                              page_count |-> updated.page_count],
                             <<r>>, TRUE)

Reject(session_id, error) ==
    /\ last' = Reply("search_more", session_id, 400, error, EmptyDict,
                     <<>>, FALSE)
    /\ UNCHANGED <<session_data, accepted, appended>>

\* one search_more request, handled from start to end
search_more(session_id) ==
    /\ variant = "app"
    /\ handlers = <<>>
    /\ IF session_id \notin DOMAIN session_data
       THEN Reject(session_id, "InvalidSession")
       ELSE LET session == session_data[session_id]
            IN IF Precheck(session) # "ok"
               THEN Reject(session_id, Precheck(session))
               ELSE \E r \in search_places(session.query,
                                           session.next_page_token, Room) :
                        StorePage(session_id, r)
    /\ UNCHANGED <<handlers, appOther>>

\* ------------------------------------------------------------ download_csv

\* writer.writeheader(); writer.writerows(places_data)
WriteCsv(places_data) == <<HeaderRow>> \o Rows(places_data)

ExportNoHeader(places_data, filename) ==
    IF places_data = <<>>
    THEN [status |-> 400, error |-> "NoData", reply |-> EmptyDict]
    ELSE [status |-> 200, error |-> "",
          reply |-> [rows |-> Rows(places_data), download_name |-> filename]]

\* download_csv from the session's records on: the error or the file sent
Export(places_data, filename) ==
    IF places_data = <<>>
    THEN [status |-> 400, error |-> "NoData", reply |-> EmptyDict]
    ELSE [status |-> 200, error |-> "",
          reply |-> [rows |-> WriteCsv(places_data),
                     download_name |-> filename]]

download_csv(session_id) ==
    /\ variant = "app"
    /\ handlers = <<>>
    /\ IF session_id \notin DOMAIN session_data
       THEN last' = Reply("download_csv", session_id, 400, "InvalidSession",
                          EmptyDict, <<>>, FALSE)
       ELSE LET session == session_data[session_id]
                out == Export(session.all_places, session.filename)
            IN last' = Reply("download_csv", session_id, out.status,
                             out.error, out.reply, <<>>, FALSE)
    /\ UNCHANGED <<session_data, accepted, appended, handlers, appOther>>

\* ------------------------------------------------------------- save_to_csv

NoFile == [exists |-> FALSE, rows |-> <<>>]
EmptyFile == [exists |-> TRUE, rows |-> <<>>]

\* csvfile.tell() right after open(filename, 'a'): the end of the file,
\* 0 exactly when the file is new or empty
TellAfterOpen(f) == Len(f.rows)

HeaderAlways(append, f) == TRUE

\* if not append or csvfile.tell() == 0
WritesHeader(append, f) == ~append \/ TellAfterOpen(f) = 0

\* the file after save_to_csv(places_data, filename, append)
save_to_csv(f, places_data, append) ==
    IF places_data = <<>> THEN f
    ELSE LET opened == IF append THEN f.rows ELSE <<>>
             header == IF WritesHeader(append, [exists |-> TRUE,
                                                rows |-> opened])
                       THEN <<HeaderRow>> ELSE <<>>
         IN [exists |-> TRUE,
             rows |-> opened \o header \o Rows(places_data)]

\* the records the file has been given since it was created or truncated
SavedAfter(places_data, append) ==
    IF places_data = <<>> THEN saved
    ELSE IF append THEN saved \o places_data
    ELSE places_data

\* ----------------------------------------------------------- main.py main()

\* what get_user_search_query returns: a query that is not blank
CliQueries == {HVACQuery, RestaurantsQuery}

max_pages == MaxPages

CliRoom == MaxRecords - Len(cli.all_places_data)

mainOther == <<variant, session_data, accepted, appended, last, handlers,
               exp, fn>>

\* main() up to the while loop
MainStart(SEARCH_QUERY, api_response) ==
    LET filename == generate_filename(SEARCH_QUERY)
        all_places_data == extract_place_data(api_response.body)
    IN /\ variant = "main"
       /\ cli.pc = "start"
       /\ IF ~api_response.ok
          THEN /\ cli' = [cli EXCEPT !.pc = "exit", !.printed = "ApiError",
                                     !.filename = filename,
                                     !.resp = api_response]
               /\ UNCHANGED <<file, saved>>
          ELSE IF NoPlaces(all_places_data)
          THEN /\ cli' = [cli EXCEPT !.pc = "done", !.printed = "NoResults",
                                     !.filename = filename,
                                     !.resp = api_response]
               /\ UNCHANGED <<file, saved>>
          ELSE /\ file' = save_to_csv(file, all_places_data, FALSE)
               /\ saved' = SavedAfter(all_places_data, FALSE)
               /\ cli' = [pc |-> "loop",
                          SEARCH_QUERY |-> SEARCH_QUERY,
                          filename |-> filename,
                          all_places_data |-> all_places_data,
                          next_page_token |->
                              Get(api_response.body, "nextPageToken", None),
                          page_count |-> 1,
                          pages |-> <<Get(api_response.body, "places", <<>>)>>,
                          calls |-> 1,
                          resp |-> api_response,
                          printed |-> ""]
       /\ UNCHANGED mainOther

\* while next_page_token and page_count < max_pages
LoopTest == Truthy(cli.next_page_token) /\ cli.page_count < max_pages

\* one pass of the loop after the user answers Y
MainMore ==
    /\ variant = "main"
    /\ cli.pc = "loop"
    /\ LoopTest
    /\ \E additional_response \in
            search_places(cli.SEARCH_QUERY, cli.next_page_token, CliRoom) :
        LET additional_places_data ==
                extract_place_data(additional_response.body)
        IN IF ~additional_response.ok
           THEN /\ cli' = [cli EXCEPT !.pc = "exit", !.printed = "ApiError",
                                      !.calls = @ + 1,
                                      !.resp = additional_response]
                /\ UNCHANGED <<file, saved>>
           ELSE IF ~NoPlaces(additional_places_data)
           THEN /\ file' = save_to_csv(file, additional_places_data, TRUE)
                /\ saved' = SavedAfter(additional_places_data, TRUE)
                /\ cli' = [cli EXCEPT
                      !.all_places_data = @ \o additional_places_data,
                      !.next_page_token =
                          Get(additional_response.body, "nextPageToken", None),
                      !.page_count = @ + 1,
                      !.pages = Append(@, Get(additional_response.body,
                                              "places", <<>>)),
                      !.calls = @ + 1,
                      !.resp = additional_response]
           ELSE /\ cli' = [cli EXCEPT !.next_page_token = None,
                                      !.printed = "NoAdditionalPlaces",
                                      !.calls = @ + 1,
                                      !.resp = additional_response]
                /\ UNCHANGED <<file, saved>>
    /\ UNCHANGED mainOther

\* the loop ends: its test fails, or the user answers N
MainEnd ==
    /\ variant = "main"
    /\ cli.pc = "loop"
    /\ cli' = [cli EXCEPT
                 !.pc = "done",
                 !.printed = IF cli.page_count >= max_pages
                             THEN "ReachedMaximum" ELSE @]
    /\ UNCHANGED <<file, saved>>
    /\ UNCHANGED mainOther

\* ------------------------------------------------------------ specification

NoCli == [pc |-> "off"]
NoExport == [op |-> "none"]
NoFn == [done |-> FALSE]

\* a file left by an earlier run
OldFile == [exists |-> TRUE,
            rows |-> <<HeaderRow, Row(place_data(PlaceB))>>]

InitApp ==
    /\ variant = "app"
    /\ cli = NoCli
    /\ file = NoFile
    /\ saved = <<>>

InitMain ==
    /\ variant = "main"
    /\ cli = [pc |-> "start", printed |-> "", filename |-> <<>>, calls |-> 0,
              resp |-> EmptyDict]
    /\ \/ file \in {NoFile, EmptyFile} /\ saved = <<>>
       \/ file = OldFile /\ saved = <<place_data(PlaceB)>>

Init ==
    /\ InitApp \/ InitMain
    /\ session_data = EmptyDict
    /\ accepted = EmptyDict
    /\ appended = EmptyDict
    /\ last = NoRequest
    /\ handlers = <<>>
    /\ exp = NoExport
    /\ fn = NoFn

Next ==
    \/ \E query \in Queries :
         \E r \in search_places(Strip(query), None, Room) :
            search(query, r)
    \/ \E session_id \in SessionIds : search_more(session_id)
    \/ \E session_id \in SessionIds : download_csv(session_id)
    \/ \E query \in CliQueries :
         \E r \in search_places(query, None, MaxRecords) :
            MainStart(query, r)
    \/ MainMore
    \/ MainEnd

Spec == Init /\ [][Next]_vars

\* ------------------------------------------- overlapping search_more handlers

Idle == [pc |-> "idle"]

\* lines 172-184: the session lookup and the two checks
HCheck(h, session_id) ==
    /\ variant = "app"
    /\ handlers[h].pc = "idle"
    /\ IF session_id \notin DOMAIN session_data
       THEN Reject(session_id, "InvalidSession") /\ UNCHANGED handlers
       ELSE LET session == session_data[session_id]
            IN IF Precheck(session) # "ok"
               THEN Reject(session_id, Precheck(session))
                    /\ UNCHANGED handlers
               ELSE /\ handlers' = [handlers EXCEPT
                        ![h] = [pc |-> "checked", session_id |-> session_id]]
                    /\ UNCHANGED <<session_data, accepted, appended, last>>
    /\ UNCHANGED appOther

\* lines 187-190: the delay, then the upstream call with the token the
\* session holds at that moment
HCall(h) ==
    /\ variant = "app"
    /\ handlers[h].pc = "checked"
    /\ LET session == session_data[handlers[h].session_id]
       IN \E r \in search_places(session.query, session.next_page_token,
                                  Room) :
            handlers' = [handlers EXCEPT
                ![h] = [pc |-> "called",
                        session_id |-> handlers[h].session_id,
                        api_response |-> r]]
    /\ UNCHANGED <<session_data, accepted, appended, last, appOther>>

\* lines 191-206: the page is stored, or the error returned
HUpdate(h) ==
    /\ variant = "app"
    /\ handlers[h].pc = "called"
    /\ StorePage(handlers[h].session_id, handlers[h].api_response)
    /\ handlers' = [handlers EXCEPT ![h] = Idle]
    /\ UNCHANGED appOther

\* one session is enough for handlers that overlap on the same session
ConcSearch(query, r) ==
    /\ NextSessionId < 1
    /\ search(query, r)

InitConc ==
    /\ InitApp
    /\ session_data = EmptyDict
    /\ accepted = EmptyDict
    /\ appended = EmptyDict
    /\ last = NoRequest
    /\ handlers = [h \in 1..MaxHandlers |-> Idle]
    /\ exp = NoExport
    /\ fn = NoFn

NextConc ==
    \/ \E query \in Queries :
         \E r \in search_places(Strip(query), None, Room) :
            ConcSearch(query, r)
    \/ \E h \in 1..MaxHandlers : \E session_id \in SessionIds :
            HCheck(h, session_id)
    \/ \E h \in 1..MaxHandlers : HCall(h)
    \/ \E h \in 1..MaxHandlers : HUpdate(h)

SpecConc == InitConc /\ [][NextConc]_vars

\* ------------------------------------------------- the exporters, called alone

Records == {place_data(p) : p \in RawPlaces}

RECURSIVE SeqsUpTo(_, _)
SeqsUpTo(S, n) ==
    IF n = 0 THEN {<<>>}
    ELSE LET shorter == SeqsUpTo(S, n - 1)
         IN shorter \cup {Append(x, y) : x \in shorter, y \in S}

\* the record sequences handed to an exporter
RecordLists == SeqsUpTo(Records, MaxBatch)

exportOther == <<variant, session_data, accepted, appended, last, handlers,
                 cli, fn>>

\* if not places_data: print("No data to save to CSV"); return
SaveOutcome(places_data) == IF places_data = <<>> THEN "NoData" ELSE ""

CallSaveToCsv(places_data, append) ==
    /\ variant = "call"
    /\ Len(file.rows) + Len(places_data) + 1 <= MaxRows
    /\ file' = save_to_csv(file, places_data, append)
    /\ saved' = SavedAfter(places_data, append)
    /\ exp' = [op |-> "save_to_csv", places_data |-> places_data,
               append |-> append, error |-> SaveOutcome(places_data)]
    /\ UNCHANGED exportOther

CallExport(places_data) ==
    /\ variant = "call"
    /\ exp' = [op |-> "download_csv", places_data |-> places_data,
               out |-> Export(places_data, ResultsCsv)]
    /\ UNCHANGED <<file, saved, exportOther>>

InitExport ==
    /\ variant = "call"
    /\ file \in {NoFile, EmptyFile}
    /\ saved = <<>>
    /\ exp = NoExport
    /\ session_data = EmptyDict
    /\ accepted = EmptyDict
    /\ appended = EmptyDict
    /\ last = NoRequest
    /\ handlers = <<>>
    /\ cli = NoCli
    /\ fn = NoFn

NextExport ==
    \/ \E places_data \in RecordLists : \E append \in BOOLEAN :
            CallSaveToCsv(places_data, append)
    \/ \E places_data \in RecordLists : CallExport(places_data)

SpecExport == InitExport /\ [][NextExport]_vars

\* --------------------------------------------- generate_filename, called alone

QueryAlphabet == {"i", "n", " ", ",", "-", "a"}

\* the queries the callers pass: stripped and not empty
FilenameQueries ==
    {q \in SeqsUpTo(QueryAlphabet, MaxQueryLen) : q # <<>> /\ Strip(q) = q}
    \cup {HVACQuery, RestaurantsQuery}

CallGenerateFilename ==
    /\ variant = "call"
    /\ ~fn.done
    /\ fn' = [done |-> TRUE, search_query |-> fn.search_query,
              filename |-> generate_filename(fn.search_query)]
    /\ UNCHANGED <<variant, session_data, accepted, appended, last,
                   handlers, cli, file, saved, exp>>

InitFilename ==
    /\ variant = "call"
    /\ fn \in {[done |-> FALSE, search_query |-> q] : q \in FilenameQueries}
    /\ file = NoFile
    /\ saved = <<>>
    /\ exp = NoExport
    /\ session_data = EmptyDict
    /\ accepted = EmptyDict
    /\ appended = EmptyDict
    /\ last = NoRequest
    /\ handlers = <<>>
    /\ cli = NoCli

NextFilename == CallGenerateFilename

SpecFilename == InitFilename /\ [][NextFilename]_vars

\* ---------------------------------------------------------------- helpers

RECURSIVE Flatten(_)
Flatten(ss) == IF ss = <<>> THEN <<>> ELSE Head(ss) \o Flatten(Tail(ss))

\* one record per entry of each accepted place list, pages in fetch order
RecordsOf(pages) == Flatten([i \in DOMAIN pages |-> ExtractList(pages[i])])

IsPrefix(a, b) == Len(a) <= Len(b) /\ SubSeq(b, 1, Len(a)) = a

CliStarted == "page_count" \in DOMAIN cli

\* the token of the upstream answer r (None when it has none)
TokenOf(r) == Get(r.body, "nextPageToken", None)

\* the step just taken completed a search_more of session sid that called
\* the upstream and got an answer
MoreAnswered(sid) ==
    /\ last'.op = "search_more"
    /\ last'.sid = sid
    /\ last'.calls # <<>>
    /\ last'.calls[1].ok

\* ------------------------------------------------------------------ claims

\* C1: page cap. Every session's page_count is between 1 and 3 and the
\* session holds the records of at most 3 upstream pages, whatever the
\* upstream answers; the same for the page_count of main()'s loop.
C1_PageCap ==
    /\ \A sid \in DOMAIN session_data :
          /\ session_data[sid].page_count \in 1..MaxPages
          /\ Len(accepted[sid]) <= MaxPages
          /\ Len(session_data[sid].all_places)
                = Len(RecordsOf(accepted[sid]))
    /\ CliStarted =>
          /\ cli.page_count \in 1..max_pages
          /\ Len(cli.pages) <= max_pages
          /\ Len(cli.all_places_data) = Len(RecordsOf(cli.pages))

\* a search_more was refused at the cap although the session still holds a
\* continuation token
C1_Witness ==
    /\ last.op = "search_more"
    /\ last.error = "PageLimitReached"
    /\ last.sid \in DOMAIN session_data
    /\ session_data[last.sid].page_count = MaxPages
    /\ Truthy(session_data[last.sid].next_page_token)
    /\ Len(accepted[last.sid]) = MaxPages

\* C2 as claimed: search_more on a session whose page_count is 3 always
\* fails with PageLimitReached, with no upstream call and no delay.
C2_Original ==
    [][(/\ last'.op = "search_more"
        /\ last'.sid \in DOMAIN session_data
        /\ session_data[last'.sid].page_count = MaxPages)
       => (/\ last'.error = "PageLimitReached"
           /\ last'.calls = <<>>
           /\ ~last'.slept)]_vars

\* C2 as amended: search_more on a session whose page_count is 3 is refused
\* with status 400, no upstream call and no delay; the error is
\* PageLimitReached when the session holds a continuation token and
\* NoMoreResults when it holds none.
C2_RefusedAtCap ==
    [][(/\ last'.op = "search_more"
        /\ last'.sid \in DOMAIN session_data
        /\ session_data[last'.sid].page_count = MaxPages)
       => (/\ last'.status = 400
           /\ last'.error =
                IF Truthy(session_data[last'.sid].next_page_token)
                THEN "PageLimitReached" ELSE "NoMoreResults"
           /\ last'.calls = <<>>
           /\ ~last'.slept
           /\ session_data' = session_data)]_vars

\* a search_more on a page-3 session with no token was answered NoMoreResults
C2_Witness ==
    /\ last.op = "search_more"
    /\ last.sid \in DOMAIN session_data
    /\ session_data[last.sid].page_count = MaxPages
    /\ ~Truthy(session_data[last.sid].next_page_token)
    /\ last.error = "NoMoreResults"

\* C3 as claimed: after a search_more (or a pass of main()'s loop) whose
\* upstream answer carries no continuation token, or after which page_count
\* is 3, the session is exhausted: the next search_more on it would be
\* refused without an upstream call; and an exhausted session stays so.
C3_Exhaustion ==
    [][/\ \A sid \in DOMAIN session_data :
            /\ (MoreAnswered(sid)
                /\ (~Truthy(TokenOf(last'.calls[1]))
                    \/ session_data'[sid].page_count = MaxPages))
               => Precheck(session_data'[sid]) # "ok"
            /\ Precheck(session_data[sid]) # "ok"
               => /\ Precheck(session_data'[sid]) # "ok"
                  /\ (last'.op = "search_more" /\ last'.sid = sid)
                     => /\ last'.calls = <<>>
                        /\ last'.error \in {"NoMoreResults",
                                            "PageLimitReached"}
       /\ (cli.pc = "loop" /\ cli'.calls # cli.calls /\ cli'.resp.ok
           /\ (~Truthy(TokenOf(cli'.resp)) \/ cli'.page_count = max_pages))
          => ~(Truthy(cli'.next_page_token) /\ cli'.page_count < max_pages)
      ]_vars

\* C4: a session's records are the records of the accepted upstream place
\* lists, pages in fetch order and entries in response order, and every step
\* keeps the records it had as a prefix of the records it has.
C4_RecordOrder ==
    /\ [](/\ \A sid \in DOMAIN session_data :
                session_data[sid].all_places = RecordsOf(accepted[sid])
          /\ CliStarted => cli.all_places_data = RecordsOf(cli.pages))
    /\ [][/\ \A sid \in DOMAIN session_data :
                /\ sid \in DOMAIN session_data'
                /\ IsPrefix(session_data[sid].all_places,
                            session_data'[sid].all_places)
          /\ CliStarted =>
                IsPrefix(cli.all_places_data, cli'.all_places_data)]_vars

\* a session of three pages, the first with two entries, after a search_more
C4_Witness ==
    /\ last.op = "search_more"
    /\ last.status = 200
    /\ Len(accepted[last.sid]) = MaxPages
    /\ Len(accepted[last.sid][1]) >= 2
    /\ Len(session_data[last.sid].all_places) >= 4

\* C5: a first page with a missing or empty place list ends the search with
\* NoResults (404) and leaves the session map as it was (main(): the file as
\* it was); every session in the map began with a page of at least one record.
C5_NoResults ==
    /\ [][/\ (/\ last'.op = "search"
              /\ last'.calls # <<>>
              /\ last'.calls[1].ok
              /\ Get(last'.calls[1].body, "places", <<>>) = <<>>)
             => /\ last'.status = 404
                /\ last'.error = "NoResults"
                /\ session_data' = session_data
          /\ (/\ cli.pc = "start"
              /\ cli'.resp # EmptyDict
              /\ cli'.resp.ok
              /\ Get(cli'.resp.body, "places", <<>>) = <<>>)
             => /\ cli'.pc = "done"
                /\ cli'.printed = "NoResults"
                /\ file' = file]_vars
    /\ [](\A sid \in DOMAIN session_data :
            /\ accepted[sid] # <<>>
            /\ accepted[sid][1] # <<>>
            /\ session_data[sid].all_places # <<>>)

\* a search got an empty first page while the map already held a session
C5_Witness ==
    /\ last.op = "search"
    /\ last.status = 404
    /\ last.calls # <<>>
    /\ "places" \in DOMAIN last.calls[1].body
    /\ DOMAIN session_data # {}

\* C9: a search_more leaves the whole session map unchanged, or on the
\* addressed session alone appends the non-empty page's records, replaces
\* next_page_token by the answer's token and adds 1 to page_count, all
\* three together. No step changes a session's query or filename or removes
\* a session; download_csv changes no session.
C9_AllOrNothing ==
    [][/\ \A sid \in DOMAIN session_data :
            /\ sid \in DOMAIN session_data'
            /\ session_data'[sid].query = session_data[sid].query
            /\ session_data'[sid].filename = session_data[sid].filename
            /\ \/ session_data'[sid] = session_data[sid]
               \/ /\ MoreAnswered(sid)
                  /\ last'.status = 200
                  /\ extract_place_data(last'.calls[1].body) # <<>>
                  /\ session_data'[sid].all_places =
                        session_data[sid].all_places
                            \o extract_place_data(last'.calls[1].body)
                  /\ session_data'[sid].next_page_token =
                        TokenOf(last'.calls[1])
                  /\ session_data'[sid].page_count =
                        session_data[sid].page_count + 1
       /\ last'.op = "search_more" =>
            /\ DOMAIN session_data' = DOMAIN session_data
            /\ last'.status # 200 => session_data' = session_data
            /\ last'.status = 200 =>
                  session_data'[last'.sid] # session_data[last'.sid]
       /\ last'.op = "download_csv" => session_data' = session_data
      ]_vars

\* a search_more stored a page while the map held a second session
C9_Witness ==
    /\ last.op = "search_more"
    /\ last.status = 200
    /\ Cardinality(DOMAIN session_data) >= 2
    /\ last.sid = 0

\* the header the exported file must start with
ExpectedHeader == <<"id", "displayName", "formattedAddress", "primaryType",
                    "rating", "userRatingCount", "businessStatus">>

\* the cells of one record, in column order
Cells(rec) == <<rec.id, rec.displayName, rec.formattedAddress, rec.primaryType,
                rec.rating, rec.userRatingCount, rec.businessStatus>>

\* rows is the header followed by one row per record, in order
IsCsvOf(rows, records) ==
    /\ Len(rows) = Len(records) + 1
    /\ rows[1] = ExpectedHeader
    /\ \A i \in DOMAIN records : rows[i + 1] = Cells(records[i])

\* C6: export of an empty record sequence ends with NoData; export of n >= 1
\* records gives n + 1 rows, the header and then one row per record in
\* stored order: for download_csv and for save_to_csv in overwrite mode.
C6_Export ==
    /\ exp.op = "download_csv" =>
          IF exp.places_data = <<>>
          THEN exp.out.error = "NoData" /\ exp.out.status = 400
          ELSE /\ exp.out.status = 200
               /\ IsCsvOf(exp.out.reply.rows, exp.places_data)
    /\ (exp.op = "save_to_csv" /\ ~exp.append) =>
          IF exp.places_data = <<>>
          THEN exp.error = "NoData"
          ELSE /\ exp.error = ""
               /\ file.exists
               /\ IsCsvOf(file.rows, exp.places_data)

\* download_csv was given two records
C6_Witness ==
    /\ exp.op = "download_csv"
    /\ Len(exp.places_data) = 2
    /\ exp.places_data[1] # exp.places_data[2]
    /\ Len(exp.out.reply.rows) = 3

\* C7: whatever save_to_csv calls were made on the file (which did not exist
\* or was empty before), a file with rows is the header once, first, then one
\* row per record saved since it was last truncated, in save order; and an
\* append to a file with rows adds only the rows of the records given.
C7_HeaderOnce ==
    /\ [](file.rows # <<>> =>
            /\ IsCsvOf(file.rows, saved)
            /\ Cardinality({i \in DOMAIN file.rows :
                                file.rows[i] = ExpectedHeader}) = 1)
    /\ [][(exp'.op = "save_to_csv" /\ exp'.append /\ file.rows # <<>>) =>
            /\ Len(file'.rows) = Len(file.rows) + Len(exp'.places_data)
            /\ IsPrefix(file.rows, file'.rows)]_vars
    /\ [][(exp'.op = "save_to_csv" /\ exp'.append /\ file.rows = <<>>
           /\ exp'.places_data # <<>>) =>
            IsCsvOf(file'.rows, exp'.places_data)]_vars

\* an append added rows to a file that already had the header and a record
C7_Witness ==
    /\ exp.op = "save_to_csv"
    /\ exp.append
    /\ exp.places_data # <<>>
    /\ Len(saved) > Len(exp.places_data)
    /\ Len(file.rows) >= 3

HVACFilenameClaimed ==
    <<"F","u","q","u","a","y","_","V","a","r","i","n","a","_","H","V","A","C",
      "_","c","o","n","t","r","a","c","t","o","r","_","r","e","s","u","l","t",
      "s",".","c","s","v">>

HVACFilename ==
    <<"F","u","q","u","a","y","_","V","a","r","i","n","a","_","N","o","r","t",
      "h","_","C","a","r","o","l","i","n","a","_","H","V","A","C","_","c","o",
      "n","t","r","a","c","t","o","r","_","r","e","s","u","l","t","s",".","c",
      "s","v">>

\* C8 as claimed: generate_filename of "HVAC contractor in Fuquay-Varina North
\* Carolina" is "Fuquay_Varina_HVAC_contractor_results.csv".
C8_Original ==
    (fn.done /\ fn.search_query = HVACQuery)
        => fn.filename = HVACFilenameClaimed

\* C8 as amended: the location is everything after "in " up to the next comma
\* (here the end of the query), so the result is
\* "Fuquay_Varina_North_Carolina_HVAC_contractor_results.csv".
C8_Filename ==
    (fn.done /\ fn.search_query = HVACQuery) => fn.filename = HVACFilename

\* generate_filename was applied to the query of the example
C8_Witness == fn.done /\ fn.search_query = HVACQuery

NoDuplicates(q) ==
    \A i \in DOMAIN q : \A j \in DOMAIN q : q[i] = q[j] => i = j

\* C10 as claimed: with search_more handlers of one session overlapping,
\* page_count never exceeds 3 and no continuation token is used to append
\* more than one page.
C10_Overlap ==
    \A sid \in DOMAIN session_data :
        /\ session_data[sid].page_count <= MaxPages
        /\ Len(accepted[sid]) <= MaxPages
        /\ NoDuplicates(appended[sid])

\* the last completed request was a successful search or search_more
Succeeded ==
    /\ last.op \in {"search", "search_more"}
    /\ last.status = 200

\* C11: after a successful search or search_more, the has_more flag of the
\* reply is true exactly when the session now passes both checks of
\* search_more (token present, page_count < 3); and a search_more on that
\* session handled next calls the upstream exactly when the flag was true,
\* being refused with NoMoreResults or PageLimitReached when it was false.
C11_HasMore ==
    /\ [](Succeeded =>
            (last.reply.has_more <=> Precheck(session_data[last.sid]) = "ok"))
    /\ [][(/\ Succeeded
           /\ last'.op = "search_more"
           /\ last'.sid = last.sid)
          => /\ last.reply.has_more <=> last'.calls # <<>>
             /\ ~last.reply.has_more =>
                    /\ last'.status = 400
                    /\ last'.error \in {"NoMoreResults", "PageLimitReached"}
             /\ last.reply.has_more => last'.slept]_vars

\* a search_more reply that carries a new token on the third page: the flag
\* is false because of the page count alone
C11_Witness ==
    /\ last.op = "search_more"
    /\ last.status = 200
    /\ ~last.reply.has_more
    /\ Truthy(session_data[last.sid].next_page_token)
    /\ session_data[last.sid].page_count = MaxPages

=============================================================================
